---- MODULE Spec2Model ----
(***************************************************************************)
(* Model of serial_stresstest (run.go): the CRC-tagged transmission test   *)
(* and the three procedures built on it (speed search, length search,      *)
(* delay profiler).                                                        *)
(*                                                                         *)
(* Bytes are naturals 0..255.  A 32-bit word is a pair <<hi, lo>> of two   *)
(* 16-bit halves, because the checksum does not fit a model integer.       *)
(***************************************************************************)
EXTENDS Naturals, Sequences, FiniteSets

(***************************************************************************)
(* Bounds of the model.                                                    *)
(***************************************************************************)
\* payload letters are drawn from letters[1..MaxLetterIdx+1]
MaxLetterIdx == 1
\* payload lengths 0..MaxLength are enumerated with every payload
MaxLength == 1
\* a device set holds 1..MaxPorts devices
MaxPorts == 2
\* speeds 0..MaxSpeed are enumerated as search bounds
MaxSpeed == 5
\* elapsed time of one device, 0..MaxElapsed
MaxElapsed == 1
\* sample counts 0..MaxSamples
MaxSamples == 2

(***************************************************************************)
(* Program constants.                                                      *)
(***************************************************************************)
\* run.go:67  buf := make([]byte, 10000)
BufSize == 10000
\* run.go:116 and run.go:156  for i := 0; i < 2; i++
Passes == 2

\* run.go:13  "abcdefghijklmnopqrstuvwxyzABCDEFGHIJKLMNOPQRSTUVWXYZ" as bytes
letters == [n \in 1..52 |-> IF n <= 26 THEN 96 + n ELSE 38 + n]

(***************************************************************************)
(* hash/crc32 with the table of polynomial 0xEDB88320, as run.go:46-47     *)
(* uses it: crc32.Checksum(data, crc32.MakeTable(0xEDB88320)).             *)
(***************************************************************************)
\* a ^ b on single bits, nibbles, bytes and 16-bit halves
XorBit(a, b) == IF a = b THEN 0 ELSE 1

XorNibble ==
    [a \in 0..15 |-> [b \in 0..15 |->
        (8 * XorBit(a \div 8, b \div 8)) + (4 * XorBit((a \div 4) % 2, (b \div 4) % 2))
        + (2 * XorBit((a \div 2) % 2, (b \div 2) % 2)) + XorBit(a % 2, b % 2)]]

Xor8(a, b) == (16 * XorNibble[a \div 16][b \div 16]) + XorNibble[a % 16][b % 16]

Xor(a, b) == (256 * Xor8(a \div 256, b \div 256)) + Xor8(a % 256, b % 256)

\* the polynomial 0xEDB88320 as <<hi, lo>> = <<0xEDB8, 0x8320>>
Poly == <<60856, 33568>>

Xor32(x, y) == <<Xor(x[1], y[1]), Xor(x[2], y[2])>>

\* x >> 1 on a 32-bit word
Shr1(x) == <<x[1] \div 2, (x[2] \div 2) + (32768 * (x[1] % 2))>>

\* x >> 8 on a 32-bit word
Shr8(x) == <<x[1] \div 256, (x[2] \div 256) + (256 * (x[1] % 256))>>

RECURSIVE TableEntry(_, _)
TableEntry(c, n) ==
    IF n = 0 THEN c
    ELSE TableEntry(IF c[2] % 2 = 1 THEN Xor32(Poly, Shr1(c)) ELSE Shr1(c), n - 1)

\* crc32.MakeTable(0xEDB88320)
crc32q == [b \in 0..255 |-> TableEntry(<<0, b>>, 8)]

\* one byte of the table-driven update: tab[byte(crc)^b] ^ (crc >> 8)
CrcByte(crc, b) == Xor32(crc32q[Xor8(crc[2] % 256, b)], Shr8(crc))

\* the update over data[from..to], split in halves to keep the evaluation shallow
RECURSIVE CrcUpdate(_, _, _, _)
\* the rest of the update once the checksum of the bytes before it is known
CrcRest(left, data, from, to) ==
    IF left[1] < 65536 THEN CrcUpdate(left, data, from, to) ELSE left
CrcUpdate(crc, data, from, to) ==
    IF from > to THEN crc
    ELSE IF from = to THEN CrcByte(crc, data[from])
    ELSE LET mid == (from + to) \div 2
         IN  CrcRest(CrcUpdate(crc, data, from, mid), data, mid + 1, to)

\* crc32.Checksum: ^update(^0, data)
Checksum(data) ==
    Xor32(CrcUpdate(<<65535, 65535>>, data, 1, Len(data)), <<65535, 65535>>)

(***************************************************************************)
(* strconv.FormatUint(x, 16): lower-case hexadecimal text, no padding.     *)
(***************************************************************************)
HexDigit(d) == IF d < 10 THEN 48 + d ELSE 87 + d

RECURSIVE Hex(_)
Hex(n) == IF n < 16 THEN <<HexDigit(n)>> ELSE Append(Hex(n \div 16), HexDigit(n % 16))

Hex4(n) ==
    <<HexDigit(n \div 4096), HexDigit((n \div 256) % 16),
      HexDigit((n \div 16) % 16), HexDigit(n % 16)>>

FormatUint16(x) == IF x[1] = 0 THEN Hex(x[2]) ELSE Hex(x[1]) \o Hex4(x[2])

\* strings.HasSuffix(s, suffix)
HasSuffix(s, suffix) ==
    /\ Len(s) >= Len(suffix)
    /\ SubSeq(s, Len(s) - Len(suffix) + 1, Len(s)) = suffix


(***************************************************************************)
(* State.  The variables carry the names of the arguments and locals of    *)
(* run.go; one procedure runs per behaviour, chosen by proc.               *)
(***************************************************************************)
VARIABLES
    proc,                 \* the procedure invoked: one of Procs
    pc,                   \* position in that procedure
    ports, length, speed, \* arguments (or loop variables) shared by name
    min_speed, max_speed, \* test_for_speed
    min_speed0,           \* history: min_speed as the caller passed it
    min_length, max_length, \* test_for_length
    samples,              \* test_for_delay
    i,                    \* outer loop counter of the procedure
    res,                  \* test_for_speed: the outer res of run.go:114
    last_working_speed,
    last_working_length,
    delays,               \* test_for_delay: collected latencies
    total, min_delay, max_delay, \* test_for_delay: run.go:202-204
    ret,                  \* the value returned by the procedure
    tx,                   \* the frame of the running test_transmission call
    handles,              \* the devices that are open
    log                   \* history: the transmissions of this invocation

vars == <<proc, pc, ports, length, speed, min_speed, max_speed, min_speed0, min_length,
          max_length, samples, i, res, last_working_speed, last_working_length,
          delays, total, min_delay, max_delay, ret, tx, handles, log>>

Procs == {"test_transmission", "test_for_speed", "test_for_length", "test_for_delay"}

\* device sets: <<1>>, <<1, 2>>, ...
PortSets == {[j \in 1..n |-> j] : n \in 1..MaxPorts}

Range(s) == {s[j] : j \in 1..Len(s)}

(***************************************************************************)
(* randSeq, run.go:15-21: every string the generator can return, over the  *)
(* first letters of the alphabet; beyond MaxLength only the string that    *)
(* repeats the first letter is enumerated.                                 *)
(***************************************************************************)
randSeq(n) ==
    LET pick == {letters[k + 1] : k \in 0..MaxLetterIdx}
    IN  IF n <= MaxLength THEN [1..n -> pick]
        ELSE {[j \in 1..n |-> letters[1]]}

(***************************************************************************)
(* test_transmission, run.go:23-95.                                        *)
(***************************************************************************)
TxIdle ==
    [pc |-> "idle", data |-> <<>>, checksum |-> <<>>, packet |-> <<>>,
     port_idx |-> 0, delays |-> <<>>, deferred |-> <<>>, ok |-> FALSE,
     step |-> "none", err |-> {}, n |-> 0, received |-> <<>>, opened |-> <<>>]

\* run.go:40-49: the frame after the packet is built from payload data
TxStart(data) ==
    LET checksum == FormatUint16(Checksum(data))
    IN  [TxIdle EXCEPT !.pc = "loop", !.data = data, !.checksum = checksum,
                       !.packet = data \o checksum]

\* run.go:67,71,81: buf[0:m] of the zeroed buffer after the read stored rx in it
Slice(rx, m) == [j \in 1..m |-> IF j <= Len(rx) THEN rx[j] ELSE 0]

\* run.go:81: the slice expression panics when the packet is longer than buf
SliceInRange(packet) == Len(packet) <= BufSize

\* run.go:81
packet_valid(rx, packet, checksum) ==
    HasSuffix(Slice(rx, Len(packet)), checksum)

\* the packet as the device echoes it into a buffer of BufSize bytes
Echo(packet) ==
    IF Len(packet) <= BufSize THEN packet ELSE SubSeq(packet, 1, BufSize)

\* the byte sequences a read may deliver for a packet: the packet, the packet
\* and a further byte, every shorter prefix, and the packet with one byte
\* replaced by 0 or by 'b' (a letter and a hexadecimal digit)
AllRx(packet, data) ==
    IF Len(data) > MaxLength THEN {Echo(packet), <<>>}
    ELSE {Echo(packet), Append(packet, 10)}
         \cup {SubSeq(packet, 1, n) : n \in 0..(Len(packet) - 1)}
         \cup {[packet EXCEPT ![p] = c] : p \in 1..Len(packet), c \in {0, letters[2]}}

\* the environment of one device iteration, per procedure: the searches only
\* see whether a call validated, so they draw from the two ends of AllRx
RxSet(packet, data) ==
    IF proc = "test_transmission" THEN AllRx(packet, data) ELSE {Echo(packet), <<>>}

ErrSet == IF proc = "test_transmission" THEN SUBSET {"write", "read"} ELSE {{}}

\* only test_for_delay reads the latencies
ElapsedSet == IF proc = "test_for_delay" THEN 0..MaxElapsed ELSE {MaxElapsed}

\* a variant that closes only the device opened last
RunDeferredLastOnly(open, deferred) ==
    IF deferred = <<>> THEN open ELSE open \ {deferred[Len(deferred)]}

\* the deferred port.Close() calls of the frame run (on return and on panic)
RunDeferred(open, deferred) == open \ Range(deferred)

\* run.go:64-65: serial.Open failed, check(err) panics
TxOpenFailed ==
    /\ tx' = [tx EXCEPT !.pc = "panic", !.step = "open_failed", !.err = {"open"},
                        !.n = 0, !.received = <<>>, !.deferred = <<>>]
    /\ handles' = RunDeferred(handles, tx.deferred)
    /\ pc' = "panic"

\* a variant that records the latency before the validity check
TxDelaysAlways(d, valid, elapsed) == Append(d, elapsed)

\* run.go:83-91: the latencies after a device's packet was verified
TxDelays(d, valid, elapsed) == IF valid THEN Append(d, elapsed) ELSE d

\* run.go:64-91 with the device open: write, read, defer close, verify
TxTransfer(port, err, rx, elapsed) ==
    LET deferred == Append(tx.deferred, port)
        open == handles \cup {port}
        opened == Append(tx.opened, port)
        valid == packet_valid(rx, tx.packet, tx.checksum)
    IN  IF ~SliceInRange(tx.packet)
        THEN /\ tx' = [tx EXCEPT !.pc = "panic", !.step = "slice_out_of_range",
                                 !.err = err, !.n = Len(rx), !.received = <<>>,
                                 !.deferred = <<>>, !.opened = opened]
             /\ handles' = RunDeferred(open, deferred)
             /\ pc' = "panic"
        ELSE IF ~valid
        THEN /\ tx' = [tx EXCEPT !.pc = "ret", !.ok = FALSE, !.step = "invalid",
                                 !.err = err, !.n = Len(rx),
                                 !.received = Slice(rx, Len(tx.packet)),
                                 !.deferred = <<>>, !.opened = opened,
                                 !.delays = TxDelays(tx.delays, valid, elapsed)]
             /\ handles' = RunDeferred(open, deferred)
             /\ pc' = pc
        ELSE /\ tx' = [tx EXCEPT !.step = "valid", !.err = err, !.n = Len(rx),
                                 !.received = Slice(rx, Len(tx.packet)),
                                 !.deferred = deferred, !.opened = opened,
                                 !.delays = TxDelays(tx.delays, valid, elapsed),
                                 !.port_idx = tx.port_idx + 1]
             /\ handles' = open
             /\ pc' = pc

\* one iteration of the loop over the devices, run.go:55-92
TxIter ==
    /\ tx.pc = "loop"
    /\ tx.port_idx < Len(ports)
    /\ \/ TxOpenFailed
       \/ \E err \in ErrSet, rx \in RxSet(tx.packet, tx.data), elapsed \in ElapsedSet :
              TxTransfer(ports[tx.port_idx + 1], err, rx, elapsed)
    /\ UNCHANGED <<proc, ports, length, speed, min_speed, max_speed, min_speed0, min_length,
                   max_length, samples, i, res, last_working_speed,
                   last_working_length, delays, total, min_delay, max_delay, ret, log>>

\* run.go:94: every device validated
TxReturn ==
    /\ tx.pc = "loop"
    /\ tx.port_idx = Len(ports)
    /\ tx' = [tx EXCEPT !.pc = "ret", !.ok = TRUE, !.deferred = <<>>]
    /\ handles' = RunDeferred(handles, tx.deferred)
    /\ UNCHANGED <<proc, pc, ports, length, speed, min_speed, max_speed, min_speed0, min_length,
                   max_length, samples, i, res, last_working_speed,
                   last_working_length, delays, total, min_delay, max_delay, ret, log>>

\* a caller enters test_transmission(ports, len, spd): history entry and frame
Call(len, spd) ==
    /\ \E data \in randSeq(len) : tx' = TxStart(data)
    /\ log' = Append(log, [speed |-> spd, length |-> len, pass |-> i, res |-> "pending",
                            delays |-> <<>>])

\* the history once the running call returned ok and the latencies of tx
Logged(ok) ==
    [log EXCEPT ![Len(log)].res = IF ok THEN "ok" ELSE "fail",
                ![Len(log)].delays = tx.delays]

(***************************************************************************)
(* test_transmission called directly (run.go:239).                         *)
(***************************************************************************)
TxMainCall ==
    /\ proc = "test_transmission" /\ pc = "start"
    /\ Call(length, speed)
    /\ pc' = "call"
    /\ UNCHANGED <<proc, ports, length, speed, min_speed, max_speed, min_speed0, min_length,
                   max_length, samples, i, res, last_working_speed,
                   last_working_length, delays, total, min_delay, max_delay, ret,
                   handles>>

TxMainDone ==
    /\ proc = "test_transmission" /\ pc = "call" /\ tx.pc = "ret"
    /\ ret' = [ok |-> tx.ok, delays |-> tx.delays]
    /\ log' = Logged(tx.ok)
    /\ pc' = "done"
    /\ UNCHANGED <<proc, ports, length, speed, min_speed, max_speed, min_speed0, min_length,
                   max_length, samples, i, res, last_working_speed,
                   last_working_length, delays, total, min_delay, max_delay, tx,
                   handles>>

(***************************************************************************)
(* test_for_speed, run.go:97-136.                                          *)
(***************************************************************************)
\* a variant without the early exit
SpeedGuardNever(min, max) == FALSE

\* run.go:117: the early-exit check on the step
SpeedGuard(min, max) == (max \div min) < 1

\* a variant that also tests max_speed itself
SpeedLoopCondInclusive(spd, max) == spd <= max

\* run.go:120: the loop condition
SpeedLoopCond(spd, max) == spd < max

\* run.go:120: the increment of the stepped loop
SpeedStep(min, max) == max \div min

\* a variant that records the speed whatever the result
SpeedRecordAlways(ok, spd, last) == spd

\* run.go:123-125: last_working_speed after a transmission at spd returned ok
SpeedRecord(ok, spd, last) == IF ok THEN spd ELSE last

\* run.go:132,135 and 118: return last_working_speed
SpeedReturn ==
    /\ ret' = last_working_speed
    /\ pc' = "done"

\* run.go:131-133 then the i++ of run.go:116
SpeedAfterInner ==
    IF res THEN SpeedReturn /\ i' = i
    ELSE /\ i' = i + 1
         /\ pc' = "outer"
         /\ ret' = ret

\* run.go:116-120: head of an outer pass
SpeedOuter ==
    /\ proc = "test_for_speed" /\ pc = "outer"
    /\ IF i >= Passes THEN SpeedReturn /\ speed' = speed
       ELSE IF min_speed = 0
            THEN pc' = "panic" /\ ret' = ret /\ speed' = speed  \* integer divide by zero
       ELSE IF SpeedGuard(min_speed, max_speed) THEN SpeedReturn /\ speed' = speed
       ELSE /\ speed' = min_speed
            /\ pc' = "inner"
            /\ ret' = ret
    /\ UNCHANGED <<proc, ports, length, min_speed, max_speed, min_speed0, min_length, max_length,
                   samples, i, res, last_working_speed, last_working_length, delays,
                   total, min_delay, max_delay, tx, handles, log>>

\* run.go:120-122: loop condition, then the call
SpeedInner ==
    /\ proc = "test_for_speed" /\ pc = "inner"
    /\ IF SpeedLoopCond(speed, max_speed)
       THEN /\ Call(length, speed)
            /\ pc' = "call"
            /\ UNCHANGED <<i, ret>>
       ELSE /\ SpeedAfterInner
            /\ UNCHANGED <<tx, log>>
    /\ UNCHANGED <<proc, ports, length, speed, min_speed, max_speed, min_speed0, min_length,
                   max_length, samples, res, last_working_speed,
                   last_working_length, delays, total, min_delay, max_delay,
                   handles>>

\* run.go:122-129: the call returned; the res it assigns is the inner one
\* a variant that restarts just past the speed that failed
SpeedNarrowPast(spd) == spd + 1

\* run.go:127: the lower bound of the next pass after a failure at spd
SpeedNarrow(spd) == spd

SpeedAfter ==
    /\ proc = "test_for_speed" /\ pc = "call" /\ tx.pc = "ret"
    /\ last_working_speed' = SpeedRecord(tx.ok, speed, last_working_speed)
    /\ IF tx.ok
       THEN /\ speed' = speed + SpeedStep(min_speed, max_speed)
            /\ pc' = "inner"
            /\ UNCHANGED <<min_speed, i, ret>>
       ELSE /\ min_speed' = SpeedNarrow(speed)
            /\ speed' = speed
            /\ SpeedAfterInner
    /\ tx' = TxIdle
    /\ log' = Logged(tx.ok)
    /\ UNCHANGED <<proc, ports, length, max_speed, min_speed0, min_length, max_length, samples,
                   res, last_working_length, delays, total, min_delay, max_delay,
                   handles>>

(***************************************************************************)
(* test_for_length, run.go:138-169.                                        *)
(***************************************************************************)
\* run.go:157: the loop condition
LengthLoopCond(len, max) == len < max

\* a variant whose passes skip min_length
LengthStartNext(min) == min + 1

\* run.go:157: the length a pass starts at
LengthStart(min) == min

\* run.go:160-161: last_working_length after a transmission at len returned ok
LengthRecord(ok, len, last) == IF ok THEN len ELSE last

\* run.go:156-157: head of a pass; run.go:168 after the last one
LengthOuter ==
    /\ proc = "test_for_length" /\ pc = "outer"
    /\ IF i >= Passes
       THEN /\ ret' = last_working_length
            /\ pc' = "done"
            /\ length' = length
       ELSE /\ length' = LengthStart(min_length)
            /\ pc' = "inner"
            /\ ret' = ret
    /\ UNCHANGED <<proc, ports, speed, min_speed, max_speed, min_speed0, min_length, max_length,
                   samples, i, res, last_working_speed, last_working_length, delays,
                   total, min_delay, max_delay, tx, handles, log>>

\* run.go:157-159: loop condition, then the call
LengthInner ==
    /\ proc = "test_for_length" /\ pc = "inner"
    /\ IF LengthLoopCond(length, max_length)
       THEN /\ Call(length, speed)
            /\ pc' = "call"
            /\ i' = i
       ELSE /\ i' = i + 1
            /\ pc' = "outer"
            /\ UNCHANGED <<tx, log>>
    /\ UNCHANGED <<proc, ports, length, speed, min_speed, max_speed, min_speed0, min_length,
                   max_length, samples, res, last_working_speed,
                   last_working_length, delays, total, min_delay, max_delay, ret,
                   handles>>

\* run.go:159-165: the call returned
LengthAfter ==
    /\ proc = "test_for_length" /\ pc = "call" /\ tx.pc = "ret"
    /\ last_working_length' = LengthRecord(tx.ok, length, last_working_length)
    /\ IF tx.ok
       THEN /\ length' = length + 1
            /\ pc' = "inner"
            /\ ret' = ret
       ELSE /\ ret' = last_working_length
            /\ pc' = "done"
            /\ length' = length
    /\ tx' = TxIdle
    /\ log' = Logged(tx.ok)
    /\ UNCHANGED <<proc, ports, speed, min_speed, max_speed, min_speed0, min_length, max_length,
                   samples, i, res, last_working_speed, delays, total, min_delay,
                   max_delay, handles>>

(***************************************************************************)
(* test_for_delay, run.go:171-228.  Latencies are naturals; the average    *)
(* total/len is kept as the fraction <<total, len>>, and 0/0 is NaN.       *)
(***************************************************************************)
\* run.go:206-218: one iteration of the statistics loop on s = <<total, min, max>>
StatsStep(s, value) ==
    LET min1 == IF s[2] = 0 THEN value ELSE s[2]
        max1 == IF s[3] = 0 THEN value ELSE s[3]
    IN  <<s[1] + value,
          IF min1 > value THEN value ELSE min1,
          IF max1 < value THEN value ELSE max1>>

\* run.go:202-219: the loop over the first k collected latencies
RECURSIVE Stats(_, _)
Stats(d, k) == IF k = 0 THEN <<0, 0, 0>> ELSE StatsStep(Stats(d, k - 1), d[k])

\* a variant that reports a latency of 0 when nothing was collected
AvgZeroWhenEmpty(sum, count) == IF count = 0 THEN <<0, 1>> ELSE <<sum, count>>

\* run.go:221
Avg(sum, count) == <<sum, count>>

IsNaN(avg) == avg[1] = 0 /\ avg[2] = 0

\* a variant that keeps only the latencies of the latest call
DelayCollectLatest(ds, d) == d

\* run.go:199: delays = append(delays, d...)
DelayCollect(ds, d) == ds \o d

\* a variant that never leaves the loop early
DelayBreakNever(ok) == FALSE

\* run.go:193-195: the loop is left when the call did not succeed
DelayBreak(ok) == ~ok

\* run.go:188-191: loop condition, then the call
DelayLoop ==
    /\ proc = "test_for_delay" /\ pc = "loop"
    /\ IF i < samples
       THEN /\ Call(length, speed)
            /\ pc' = "call"
       ELSE /\ pc' = "stats"
            /\ UNCHANGED <<tx, log>>
    /\ UNCHANGED <<proc, ports, length, speed, min_speed, max_speed, min_speed0, min_length,
                   max_length, samples, i, res, last_working_speed,
                   last_working_length, delays, total, min_delay, max_delay, ret,
                   handles>>

\* run.go:191-199: the call returned
DelayAfter ==
    /\ proc = "test_for_delay" /\ pc = "call" /\ tx.pc = "ret"
    /\ IF DelayBreak(tx.ok)
       THEN /\ pc' = "stats"
            /\ UNCHANGED <<delays, i>>
       ELSE /\ delays' = DelayCollect(delays, tx.delays)
            /\ i' = i + 1
            /\ pc' = "loop"
    /\ tx' = TxIdle
    /\ log' = Logged(tx.ok)
    /\ UNCHANGED <<proc, ports, length, speed, min_speed, max_speed, min_speed0, min_length,
                   max_length, samples, res, last_working_speed,
                   last_working_length, total, min_delay, max_delay, ret, handles>>

\* run.go:202-227: statistics, average, return
DelayStats ==
    /\ proc = "test_for_delay" /\ pc = "stats"
    /\ LET s == Stats(delays, Len(delays))
       IN  /\ total' = s[1]
           /\ min_delay' = s[2]
           /\ max_delay' = s[3]
           /\ ret' = Avg(s[1], Len(delays))
    /\ pc' = "done"
    /\ UNCHANGED <<proc, ports, length, speed, min_speed, max_speed, min_speed0, min_length,
                   max_length, samples, i, res, last_working_speed,
                   last_working_length, delays, tx, handles, log>>

(***************************************************************************)
(* Initial states: one invocation, as main (run.go:236-257) makes them,    *)
(* with the arguments drawn from the bounded sets.                         *)
(***************************************************************************)
Locals ==
    /\ i = 0 /\ res = FALSE
    /\ last_working_speed = 0 /\ last_working_length = 0
    /\ delays = <<>> /\ total = 0 /\ min_delay = 0 /\ max_delay = 0
    /\ ret = 0 /\ tx = TxIdle /\ handles = {} /\ log = <<>>

InitTransmission ==
    /\ proc = "test_transmission" /\ pc = "start"
    /\ ports \in PortSets
    /\ length \in (0..MaxLength) \cup {BufSize}
    /\ speed = 1
    /\ min_speed = 0 /\ max_speed = 0 /\ min_speed0 = 0 /\ min_length = 0 /\ max_length = 0
    /\ samples = 0

InitSpeed ==
    /\ proc = "test_for_speed" /\ pc = "outer"
    /\ ports \in PortSets
    /\ length \in 0..MaxLength
    /\ min_speed \in 0..MaxSpeed /\ max_speed \in 0..MaxSpeed
    /\ min_speed0 = min_speed
    /\ speed = 0 /\ min_length = 0 /\ max_length = 0 /\ samples = 0

InitLength ==
    /\ proc = "test_for_length" /\ pc = "outer"
    /\ ports \in PortSets
    /\ speed = 1
    /\ min_length \in 0..MaxLength /\ max_length \in 0..(MaxLength + 1)
    /\ length = 0 /\ min_speed = 0 /\ max_speed = 0 /\ min_speed0 = 0 /\ samples = 0

InitDelay ==
    /\ proc = "test_for_delay" /\ pc = "loop"
    /\ ports \in PortSets
    /\ length = 1
    /\ speed = 1
    /\ samples \in 0..MaxSamples
    /\ min_speed = 0 /\ max_speed = 0 /\ min_speed0 = 0 /\ min_length = 0 /\ max_length = 0

Init == Locals /\ (InitTransmission \/ InitSpeed \/ InitLength \/ InitDelay)

Next ==
    \/ TxMainCall \/ TxIter \/ TxReturn \/ TxMainDone
    \/ SpeedOuter \/ SpeedInner \/ SpeedAfter
    \/ LengthOuter \/ LengthInner \/ LengthAfter
    \/ DelayLoop \/ DelayAfter \/ DelayStats

Spec == Init /\ [][Next]_vars

\* test_for_speed alone.  The program is sequential and every statement it
\* reaches is executed, a transmission included once it returns: the step
\* that is enabled is eventually taken.
InitSpeedOnly == Locals /\ InitSpeed

NextSpeed == SpeedOuter \/ SpeedInner \/ SpeedAfter \/ TxIter \/ TxReturn

SpecSpeedFair == InitSpeedOnly /\ [][NextSpeed]_vars /\ WF_vars(NextSpeed)

(***************************************************************************)
(* Properties.                                                             *)
(***************************************************************************)
Entries == 1..Len(log)

SameCombination(a, b) == a.speed = b.speed /\ a.length = b.length

SpeedDone == proc = "test_for_speed" /\ pc = "done"

\* C1: the value test_for_speed returns is 0 or a speed at which a
\* transmission of this invocation succeeded, and it is 0 when none succeeded.
C1_SpeedResultObserved ==
    SpeedDone =>
        /\ ret = 0 \/ \E j \in Entries : log[j].res = "ok" /\ log[j].speed = ret
        /\ (\A j \in Entries : log[j].res # "ok") => ret = 0

\* test_for_speed returned a speed that worked, after another one failed
C1_Witness ==
    /\ SpeedDone /\ ret > 0
    /\ \E j \in Entries : log[j].res = "fail"

\* C2: test_for_length never returns a length at which a transmission failed
\* earlier in the pass in which it returned (0 being the value for no
\* working length, the statement is made of the lengths above 0).
C2_LengthResultNotFailedInPass ==
    (proc = "test_for_length" /\ pc = "done" /\ ret > 0) =>
        ~ \E j \in Entries :
            log[j].pass = i /\ log[j].length = ret /\ log[j].res = "fail"

\* C3: a received buffer that differs from the sent packet in a byte of the
\* payload part is never accepted as valid.
C3_CorruptedPayloadRejected ==
    tx.step = "valid" => SubSeq(tx.received, 1, Len(tx.data)) = tx.data

\* C4: with at least one sample collected, the average of test_for_delay lies
\* between the minimum and the maximum it reports: min*n <= total <= max*n.
C4_AverageBetweenMinAndMax ==
    (proc = "test_for_delay" /\ pc = "done" /\ Len(delays) >= 1) =>
        /\ min_delay * Len(delays) <= total
        /\ total <= max_delay * Len(delays)

\* C5 as stated: called with min_speed = max_speed = S > 0, test_for_speed
\* makes a single transmission at S and returns S if it verified, else 0.
C5_EqualBoundsSingleTransmission ==
    (SpeedDone /\ min_speed0 = max_speed /\ max_speed > 0) =>
        /\ Len(log) = 1
        /\ log[1].speed = max_speed /\ log[1].length = length
        /\ ret = IF log[1].res = "ok" THEN max_speed ELSE 0

\* C5 as amended: called with min_speed = max_speed = S > 0, test_for_speed
\* makes no transmission and returns 0, whatever the link would do at S.
C5_EqualBoundsReturnZero ==
    (proc = "test_for_speed" /\ min_speed0 = max_speed /\ max_speed > 0) =>
        /\ log = <<>> /\ tx.pc = "idle"
        /\ pc # "panic"
        /\ pc = "done" => ret = 0

\* test_for_speed returned from a call with equal positive bounds
C5_Witness == SpeedDone /\ min_speed0 = max_speed /\ max_speed > 0 /\ i = Passes

\* C6: called with positive bounds and min_speed >= max_speed, test_for_speed
\* returns 0 and makes no transmission at all.
C6_EmptyRangeReturnsZero ==
    (proc = "test_for_speed" /\ max_speed > 0 /\ min_speed0 >= max_speed) =>
        /\ Len(log) = 0 /\ tx = TxIdle /\ handles = {}
        /\ pc \in {"outer", "inner", "done"}
        /\ pc = "done" => ret = 0

\* test_for_speed returned from a call with min_speed above max_speed
C6_Witness == SpeedDone /\ max_speed > 0 /\ min_speed0 > max_speed

\* C7 as stated: once a transmission at a (speed, length) combination failed,
\* no further transmission at that combination is attempted in the invocation.
C7_NoRetryAfterFailure ==
    \A j, k \in Entries :
        (j < k /\ log[j].res = "fail") => ~SameCombination(log[j], log[k])

\* C7 as amended: test_for_length and test_for_delay attempt no further
\* transmission at a combination that failed; test_for_speed attempts it again
\* only as the first transmission of its second pass, right after the failure
\* that ended the first pass, hence at most once more.
C7_RetryOnlyAtSecondSpeedPass ==
    \A j, k \in Entries :
        (j < k /\ log[j].res = "fail" /\ SameCombination(log[j], log[k])) =>
            /\ proc = "test_for_speed"
            /\ k = j + 1
            /\ log[j].pass = 0 /\ log[k].pass = 1

\* test_for_speed finished after its second pass started at the failed speed
C7_Witness ==
    /\ SpeedDone /\ Len(log) >= 2
    /\ log[1].res = "fail" /\ SameCombination(log[1], log[2])

\* C8: an error of open, write or read aborts the process, and a checksum
\* mismatch makes the call return success=false without aborting.
C8_IOErrorsAbort ==
    /\ tx.err # {} => (tx.pc = "panic" /\ pc = "panic")
    /\ tx.step = "invalid" => (tx.pc = "ret" /\ ~tx.ok /\ pc # "panic")

\* C9: a read that delivers fewer bytes than the packet holds makes the call
\* return success=false, and the process is not aborted.
C9_ShortReadReturnsFalse ==
    (tx.step \in {"valid", "invalid", "slice_out_of_range"} /\ tx.n < Len(tx.packet)) =>
        /\ tx.pc = "ret" /\ ~tx.ok
        /\ pc # "panic"

\* C10: the devices are taken in the order given; the call returns true only
\* when every device validated; the first device that fails validation ends
\* the call with no later device opened, and the latencies returned hold one
\* sample per device that validated before.
C10_TxResult ==
    /\ tx.opened = SubSeq(ports, 1, Len(tx.opened))
    /\ tx.pc = "ret" =>
        /\ tx.ok => /\ tx.port_idx = Len(ports)
                    /\ tx.opened = ports
                    /\ Len(tx.delays) = Len(ports)
        /\ ~tx.ok => /\ tx.step = "invalid"
                     /\ tx.port_idx < Len(ports)
                     /\ tx.opened = SubSeq(ports, 1, tx.port_idx + 1)
                     /\ Len(tx.delays) = tx.port_idx

\* the first device failed validation and the second one was never opened
C10_Witness ==
    /\ tx.pc = "ret" /\ ~tx.ok
    /\ Len(tx.opened) < Len(ports)

\* C11: while a test_transmission call runs, every device it opened stays
\* open; when the call has ended, by returning true, by returning false or by
\* the panic of a failed open, every device it opened is closed again.
C11_HandlesHeldThenReleased ==
    /\ tx.pc = "loop" => handles = Range(tx.opened)
    /\ tx.pc # "loop" => handles = {}

\* the open of a later device failed after an earlier device had been opened
C11_Witness ==
    /\ tx.pc = "panic" /\ tx.step = "open_failed"
    /\ Len(tx.opened) >= 1 /\ handles = {}

\* the transmissions made so far are those of a link on which a transmission
\* succeeds exactly at the lengths up to T
ThresholdLink(T) ==
    \A j \in Entries :
        log[j].res # "pending" => (log[j].res = "ok" <=> log[j].length <= T)

Min2(a, b) == IF a <= b THEN a ELSE b

\* C12: on a link where a transmission succeeds exactly at the lengths up to T,
\* with min_length <= T, test_for_length returns min(T, max_length), the largest
\* length of [min_length, max_length] that verifies (stated here for
\* min_length < max_length, where the search does transmit).
C12_LengthResultIsLargestVerifying ==
    (proc = "test_for_length" /\ pc = "done" /\ min_length < max_length) =>
        \A T \in min_length..(MaxLength + 1) :
            ThresholdLink(T) => ret = Min2(T, max_length)

DelayFinished == proc = "test_for_delay" /\ pc \in {"stats", "done"}

\* the latencies of the first k transmissions that succeeded, in order
RECURSIVE OkDelays(_)
OkDelays(k) ==
    IF k = 0 THEN <<>>
    ELSE OkDelays(k - 1) \o (IF log[k].res = "ok" THEN log[k].delays ELSE <<>>)

\* C13: test_for_delay makes at most `samples` transmissions and none after
\* the first unsuccessful one, and the samples it aggregates are the latencies
\* of the successful transmissions, in order, without the latencies that the
\* unsuccessful transmission returned.
C13_DelaySamples ==
    proc = "test_for_delay" =>
        /\ Len(log) <= samples
        /\ \A j \in Entries : j < Len(log) => log[j].res = "ok"
        /\ DelayFinished => delays = OkDelays(Len(log))

\* the second transmission failed at its second device: its first latency
\* is dropped and the statistics run on the latencies of the first one
C13_Witness ==
    /\ proc = "test_for_delay" /\ pc = "done"
    /\ Len(log) = 2 /\ log[2].res = "fail" /\ Len(log[2].delays) = 1
    /\ Len(delays) = 2

\* C14: the minimum and the maximum test_for_delay reports are the smallest
\* and the largest of the collected latencies, whenever there is one.
C14_MinMaxOfSamples ==
    (proc = "test_for_delay" /\ pc = "done" /\ Len(delays) >= 1) =>
        /\ min_delay \in Range(delays) /\ \A v \in Range(delays) : min_delay <= v
        /\ max_delay \in Range(delays) /\ \A v \in Range(delays) : v <= max_delay

\* C15: when test_for_delay collected no sample it is not aborted by its
\* statistics and returns NaN, the value that is no latency; it returns NaN
\* in no other case.
C15_NoDataIsNaN ==
    proc = "test_for_delay" =>
        /\ pc = "panic" => tx.pc = "panic"
        /\ pc = "done" => (IsNaN(ret) <=> delays = <<>>)

\* the first transmission was unsuccessful and the procedure returned NaN
C15_Witness ==
    /\ proc = "test_for_delay" /\ pc = "done"
    /\ samples > 0 /\ Len(log) = 1 /\ log[1].res = "fail"
    /\ IsNaN(ret)

\* C16: when a sweep of test_for_speed ends with every transmission of the
\* sweep successful, the search returns at once: a transmission of the second
\* pass is only made after a transmission of the first pass failed.
C16_CleanSweepReturns ==
    (proc = "test_for_speed" /\ \E k \in Entries : log[k].pass = 1) =>
        \E j \in Entries : log[j].pass = 0 /\ log[j].res = "fail"

\* C17: test_for_speed terminates: whenever a stepped sweep is entered, in
\* the first pass and in the second, min_speed is at least 1 and the step
\* max_speed / min_speed is at least 1, no more than 2 passes are run, and
\* the search ends (by returning, or by the panic of a transmission).
C17_SpeedTerminates ==
    /\ [](pc \in {"inner", "call"} =>
            /\ min_speed >= 1
            /\ SpeedStep(min_speed, max_speed) >= 1
            /\ i < Passes)
    /\ <>(pc \in {"done", "panic"})

\* the search ended after a second pass that started at a failing speed
\* above the min_speed it was called with
C17_Witness ==
    /\ SpeedDone /\ i = Passes /\ min_speed > min_speed0
    /\ \E j \in Entries : log[j].pass = 1

\* the length of the last successful transmission among the first k, or 0
RECURSIVE LastOkLength(_)
LastOkLength(k) ==
    IF k = 0 THEN 0
    ELSE IF log[k].res = "ok" THEN log[k].length ELSE LastOkLength(k - 1)

\* C18: test_for_length runs at most 2 passes; each pass starts at min_length
\* and goes up by 1; the first failing transmission ends the whole search,
\* which returns the last recorded length; so a second pass is only run when
\* the first one had no failure.
C18_LengthSweeps ==
    proc = "test_for_length" =>
        /\ \A j \in Entries :
            /\ log[j].pass \in {0, 1}
            /\ (j = 1 \/ log[j].pass # log[j - 1].pass) => log[j].length = min_length
            /\ (j > 1 /\ log[j].pass = log[j - 1].pass) =>
                   log[j].length = log[j - 1].length + 1
            /\ j > 1 => log[j].pass >= log[j - 1].pass
            /\ j < Len(log) => log[j].res = "ok"
        /\ (log # <<>> /\ log[Len(log)].res = "fail") =>
               (pc = "done" /\ ret = LastOkLength(Len(log)))

\* the second pass restarted at min_length, went up by 1 and ended on a failure
C18_Witness ==
    /\ proc = "test_for_length" /\ pc = "done"
    /\ Len(log) >= 4 /\ log[Len(log)].pass = 1 /\ log[Len(log)].res = "fail"
    /\ log[Len(log)].length > min_length

\* the link is deterministic: the outcome of a transmission depends on its speed only
DeterministicLink ==
    \A j, k \in Entries : log[j].speed = log[k].speed => log[j].res = log[k].res

\* the speed of the last successful transmission of the first pass among the
\* first k transmissions, or 0
RECURSIVE LastOkSpeedFirstPass(_)
LastOkSpeedFirstPass(k) ==
    IF k = 0 THEN 0
    ELSE IF log[k].pass = 0 /\ log[k].res = "ok" THEN log[k].speed
    ELSE LastOkSpeedFirstPass(k - 1)

\* C19: on a deterministic link test_for_speed returns the last speed that
\* succeeded in its first pass (0 if none did): the second pass does not
\* change the result.
C19_SecondPassKeepsResult ==
    (SpeedDone /\ DeterministicLink) => ret = LastOkSpeedFirstPass(Len(log))

\* a first pass with a success and then a failure, and a second pass that
\* started at the failed speed and failed again
C19_Witness ==
    /\ SpeedDone /\ DeterministicLink /\ ret > 0
    /\ \E j \in Entries :
        /\ j > 1 /\ log[j].pass = 1 /\ log[j].res = "fail"
        /\ log[j - 1].pass = 0 /\ log[j - 1].res = "fail"
        /\ log[j].speed = log[j - 1].speed

\* C20: every speed test_for_speed transmits at lies in [min_speed, max_speed)
\* of the initial bounds, and the result is 0 or a speed in that range.
C20_SpeedsInRange ==
    proc = "test_for_speed" =>
        /\ \A j \in Entries : min_speed0 <= log[j].speed /\ log[j].speed < max_speed
        /\ pc = "call" => (min_speed0 <= speed /\ speed < max_speed)
        /\ pc = "done" => (ret = 0 \/ (min_speed0 <= ret /\ ret < max_speed))

\* the search returned the highest speed of the range, above the initial min_speed
C20_Witness ==
    /\ SpeedDone /\ ret = max_speed - 1 /\ ret > min_speed0
    /\ \E j \in Entries : log[j].speed = ret /\ log[j].res = "ok"
====
